---------------------------- MODULE Spec2Model ----------------------------
(***************************************************************************)
(* Car parking sensor simulation: the three programs of the repository.    *)
(*                                                                         *)
(*   "parking"  src/main.cpp:1-350     parking-spot variant                *)
(*   "decay"    src/main.cpp:351-633   decay-timer variant                 *)
(*   "task2"    src/unnamed/part_000   Task 2 (delta-time motion, beeps)   *)
(*                                                                         *)
(* Fixed-point units (the programs use 32-bit floats):                     *)
(*   lengths and the decay distance : tenths (1 pixel = 10)                *)
(*   angles                         : tenths of a degree, wrapped to       *)
(*                                    0..3599 as sf::Angle::wrapUnsigned   *)
(*   cosines and sines              : thousandths                          *)
(*   time                           : milliseconds                         *)
(* One loop iteration (a frame) is one action; the window stays open.      *)
(***************************************************************************)
EXTENDS Integers, Sequences, FiniteSets, TLC

VARIABLES
    variant,      \* which program runs: "parking", "decay", "task2", or "pure"
    tex,          \* carTexture.getSize(), in pixels (<<0, 0>> when loading failed)
    carPos,       \* carSprite.getPosition()
    heading,      \* carSprite.getRotation()
    sensors,      \* std::vector<sf::RectangleShape> sensors: pos, rot, color
    distance,     \* float distance (decay timer) of the main.cpp programs
    beepElapsed,  \* task2: beepClock.getElapsedTime() as read in the last frame, then restarted or not
    beepStatus,   \* decay: beep.getStatus(), "Stopped" or "Playing"
    beepPlayed,   \* decay, task2: whether the last frame called play() on the beep
    closestDist,  \* task2: closestDist of the last playBeepIfNear
    interval,     \* task2: interval of the last playBeepIfNear
    parkFill,     \* task2: parkIndicator's fill colour
    parkDrawn,    \* task2: the colour parkIndicator was drawn with in the last frame
    spots,        \* parking: the parkingSpots drawn in the last frame
    keys,         \* the keys held during the last frame
    dt,           \* the time elapsed since the previous frame, in ms
    moves,        \* number of frames so far in which a key was held
    args,         \* the arguments of a function applied on its own
    result        \* its result: <<>> before the call, <<value>> after

vars == << variant, tex, carPos, heading, sensors, distance,
           beepElapsed, beepStatus, beepPlayed, closestDist, interval, parkFill, parkDrawn,
           spots, keys, dt, moves, args, result >>

-----------------------------------------------------------------------------
(* Bounds of the model *)

\* frames in which keys are held, per run of a main.cpp program and of Task 2
\* (frames without keys are unbounded)
MaxMoves == 1
MaxMovesTask2 == 2
\* frames in which keys are held in the runs of Task 2 next to an obstacle
MaxMovesBeep == 1
\* beepElapsed saturates here; every interval compared with it is smaller
BeepElapsedCap == 1000
\* coordinates and sizes of the boxes the containment functions are applied to on their own
MaxCoord == 2
\* largest closest distance the mapper is applied to on its own, in tenths of a pixel
MaxDist == 3200

\* the car stays within this distance of the window's centre, on each axis
MaxFar == 20000

\* elapsed time of a frame in ms: a clock restarted twice within the same
\* millisecond, and a 60 Hz frame
DtSet == {0, 16}
\* Task 2 also with a stalled frame (the window dragged for 3.1 s), which takes the
\* car from its start to the park indicator
DtSetTask2 == DtSet \cup {3100}
\* Task 2 with a frame of one second, which takes the car from its start to within
\* 300 pixels of the obstacle at (800, 500)
DtSetBeep == DtSet \cup {1000}
\* the car texture in pixels: not loaded (empty texture), or an image
TexSizes == { <<0, 0>>, <<40, 40>>, <<400, 200>> }
Keys == {"W", "S", "A", "D"}

-----------------------------------------------------------------------------
(* Program constants *)

SENSOR_WIDTH == 300
SENSOR_HEIGHT == 1000
SENSOR_COUNT == 4
DISTANCE_MAX == 1000
DISTANCE_MIN == 100
DISTANCE_DECREASE == 5
WARNING_THRESHOLD == 600
DANGER_THRESHOLD == 300
WINDOW_WIDTH == 19200
WINDOW_HEIGHT == 10800
\* main.cpp (decay variant): CAR_SPEED = 300.0F pixels per second
CAR_SPEED_DECAY == 3000
\* part_000: CAR_SPEED = 500.0F pixels per second
CAR_SPEED == 5000
\* part_000: CAR_ROTATION_SPEED = 2.5F degrees, applied per frame
CAR_ROTATION_SPEED == 25
\* main.cpp (parking variant): rotationSpeed = 1.0f degrees, speed = 7.0f pixels, per frame
rotationSpeed == 10
speed == 70
\* part_000:166
DIAGONAL_OFFSET == 100
\* std::numeric_limits<float>::max()
FLOAT_MAX == 1000000000

-----------------------------------------------------------------------------
(* Trigonometry on the fixed-point grid *)

\* 1000 * cos(i / 2 degrees), i = 0..719, at index i + 1
CosTable ==
  << 1000,  1000,  1000,  1000,   999,   999,   999,   998,   998,   997,   996,   995,
       995,   994,   993,   991,   990,   989,   988,   986,   985,   983,   982,   980,
       978,   976,   974,   972,   970,   968,   966,   964,   961,   959,   956,   954,
       951,   948,   946,   943,   940,   937,   934,   930,   927,   924,   921,   917,
       914,   910,   906,   903,   899,   895,   891,   887,   883,   879,   875,   870,
       866,   862,   857,   853,   848,   843,   839,   834,   829,   824,   819,   814,
       809,   804,   799,   793,   788,   783,   777,   772,   766,   760,   755,   749,
       743,   737,   731,   725,   719,   713,   707,   701,   695,   688,   682,   676,
       669,   663,   656,   649,   643,   636,   629,   623,   616,   609,   602,   595,
       588,   581,   574,   566,   559,   552,   545,   537,   530,   522,   515,   508,
       500,   492,   485,   477,   469,   462,   454,   446,   438,   431,   423,   415,
       407,   399,   391,   383,   375,   367,   358,   350,   342,   334,   326,   317,
       309,   301,   292,   284,   276,   267,   259,   250,   242,   233,   225,   216,
       208,   199,   191,   182,   174,   165,   156,   148,   139,   131,   122,   113,
       105,    96,    87,    78,    70,    61,    52,    44,    35,    26,    17,     9,
         0,    -9,   -17,   -26,   -35,   -44,   -52,   -61,   -70,   -78,   -87,   -96,
      -105,  -113,  -122,  -131,  -139,  -148,  -156,  -165,  -174,  -182,  -191,  -199,
      -208,  -216,  -225,  -233,  -242,  -250,  -259,  -267,  -276,  -284,  -292,  -301,
      -309,  -317,  -326,  -334,  -342,  -350,  -358,  -367,  -375,  -383,  -391,  -399,
      -407,  -415,  -423,  -431,  -438,  -446,  -454,  -462,  -469,  -477,  -485,  -492,
      -500,  -508,  -515,  -522,  -530,  -537,  -545,  -552,  -559,  -566,  -574,  -581,
      -588,  -595,  -602,  -609,  -616,  -623,  -629,  -636,  -643,  -649,  -656,  -663,
      -669,  -676,  -682,  -688,  -695,  -701,  -707,  -713,  -719,  -725,  -731,  -737,
      -743,  -749,  -755,  -760,  -766,  -772,  -777,  -783,  -788,  -793,  -799,  -804,
      -809,  -814,  -819,  -824,  -829,  -834,  -839,  -843,  -848,  -853,  -857,  -862,
      -866,  -870,  -875,  -879,  -883,  -887,  -891,  -895,  -899,  -903,  -906,  -910,
      -914,  -917,  -921,  -924,  -927,  -930,  -934,  -937,  -940,  -943,  -946,  -948,
      -951,  -954,  -956,  -959,  -961,  -964,  -966,  -968,  -970,  -972,  -974,  -976,
      -978,  -980,  -982,  -983,  -985,  -986,  -988,  -989,  -990,  -991,  -993,  -994,
      -995,  -995,  -996,  -997,  -998,  -998,  -999,  -999,  -999, -1000, -1000, -1000,
     -1000, -1000, -1000, -1000,  -999,  -999,  -999,  -998,  -998,  -997,  -996,  -995,
      -995,  -994,  -993,  -991,  -990,  -989,  -988,  -986,  -985,  -983,  -982,  -980,
      -978,  -976,  -974,  -972,  -970,  -968,  -966,  -964,  -961,  -959,  -956,  -954,
      -951,  -948,  -946,  -943,  -940,  -937,  -934,  -930,  -927,  -924,  -921,  -917,
      -914,  -910,  -906,  -903,  -899,  -895,  -891,  -887,  -883,  -879,  -875,  -870,
      -866,  -862,  -857,  -853,  -848,  -843,  -839,  -834,  -829,  -824,  -819,  -814,
      -809,  -804,  -799,  -793,  -788,  -783,  -777,  -772,  -766,  -760,  -755,  -749,
      -743,  -737,  -731,  -725,  -719,  -713,  -707,  -701,  -695,  -688,  -682,  -676,
      -669,  -663,  -656,  -649,  -643,  -636,  -629,  -623,  -616,  -609,  -602,  -595,
      -588,  -581,  -574,  -566,  -559,  -552,  -545,  -537,  -530,  -522,  -515,  -508,
      -500,  -492,  -485,  -477,  -469,  -462,  -454,  -446,  -438,  -431,  -423,  -415,
      -407,  -399,  -391,  -383,  -375,  -367,  -358,  -350,  -342,  -334,  -326,  -317,
      -309,  -301,  -292,  -284,  -276,  -267,  -259,  -250,  -242,  -233,  -225,  -216,
      -208,  -199,  -191,  -182,  -174,  -165,  -156,  -148,  -139,  -131,  -122,  -113,
      -105,   -96,   -87,   -78,   -70,   -61,   -52,   -44,   -35,   -26,   -17,    -9,
         0,     9,    17,    26,    35,    44,    52,    61,    70,    78,    87,    96,
       105,   113,   122,   131,   139,   148,   156,   165,   174,   182,   191,   199,
       208,   216,   225,   233,   242,   250,   259,   267,   276,   284,   292,   301,
       309,   317,   326,   334,   342,   350,   358,   367,   375,   383,   391,   399,
       407,   415,   423,   431,   438,   446,   454,   462,   469,   477,   485,   492,
       500,   508,   515,   522,   530,   537,   545,   552,   559,   566,   574,   581,
       588,   595,   602,   609,   616,   623,   629,   636,   643,   649,   656,   663,
       669,   676,   682,   688,   695,   701,   707,   713,   719,   725,   731,   737,
       743,   749,   755,   760,   766,   772,   777,   783,   788,   793,   799,   804,
       809,   814,   819,   824,   829,   834,   839,   843,   848,   853,   857,   862,
       866,   870,   875,   879,   883,   887,   891,   895,   899,   903,   906,   910,
       914,   917,   921,   924,   927,   930,   934,   937,   940,   943,   946,   948,
       951,   954,   956,   959,   961,   964,   966,   968,   970,   972,   974,   976,
       978,   980,   982,   983,   985,   986,   988,   989,   990,   991,   993,   994,
       995,   995,   996,   997,   998,   998,   999,   999,   999,  1000,  1000,  1000 >>

\* 1000 * cos and sin of (2.5 * i) * (3.14 / 180), i = 0..143, at index i + 1
CosTablePI314 ==
  << 1000,   999,   996,   991,   985,   976,   966,   954,   940,   924,   906,   887,
       866,   844,   819,   794,   766,   738,   707,   676,   643,   609,   574,   538,
       500,   462,   423,   383,   343,   301,   259,   217,   174,   131,    88,    44,
         1,   -43,   -86,  -130,  -173,  -216,  -258,  -300,  -341,  -382,  -422,  -461,
      -499,  -536,  -573,  -608,  -642,  -675,  -706,  -736,  -765,  -793,  -818,  -843,
      -865,  -886,  -906,  -923,  -939,  -953,  -966,  -976,  -985,  -991,  -996,  -999,
     -1000,  -999,  -996,  -992,  -985,  -977,  -966,  -954,  -940,  -925,  -907,  -888,
      -867,  -844,  -820,  -795,  -767,  -739,  -709,  -677,  -644,  -610,  -575,  -539,
      -502,  -464,  -425,  -385,  -344,  -303,  -261,  -219,  -176,  -133,   -89,   -46,
        -2,    41,    85,   128,   171,   214,   256,   298,   340,   380,   420,   459,
       498,   535,   571,   607,   641,   674,   705,   735,   764,   792,   817,   842,
       865,   886,   905,   923,   939,   953,   965,   976,   984,   991,   996,   999 >>

SinTablePI314 ==
  << 0,    44,    87,   130,   174,   216,   259,   301,   342,   382,   422,   462,
       500,   537,   573,   608,   643,   675,   707,   737,   766,   793,   819,   843,
       866,   887,   906,   924,   939,   954,   966,   976,   985,   991,   996,   999,
      1000,   999,   996,   992,   985,   976,   966,   954,   940,   924,   907,   887,
       867,   844,   820,   794,   767,   738,   708,   676,   644,   610,   575,   538,
       501,   463,   424,   384,   343,   302,   260,   218,   175,   132,    89,    45,
         2,   -42,   -86,  -129,  -172,  -215,  -257,  -299,  -340,  -381,  -421,  -460,
      -498,  -536,  -572,  -607,  -641,  -674,  -706,  -736,  -765,  -792,  -818,  -842,
      -865,  -886,  -905,  -923,  -939,  -953,  -965,  -976,  -984,  -991,  -996,  -999,
     -1000,  -999,  -996,  -992,  -985,  -977,  -967,  -954,  -941,  -925,  -907,  -888,
      -867,  -845,  -821,  -795,  -768,  -739,  -709,  -678,  -645,  -611,  -576,  -540,
      -503,  -464,  -425,  -385,  -345,  -304,  -262,  -219,  -177,  -134,   -90,   -47 >>

-----------------------------------------------------------------------------
(* Arithmetic helpers *)

Abs(a) == IF a < 0 THEN -a ELSE a

\* a / b rounded to the nearest integer, symmetric about 0 (b > 0)
RDiv(a, b) == IF a >= 0 THEN (a + (b \div 2)) \div b ELSE -((-a + (b \div 2)) \div b)

MinOf(a, b) == IF a < b THEN a ELSE b
MaxOf(a, b) == IF a < b THEN b ELSE a

\* sf::Angle::wrapUnsigned, applied by Transformable::setRotation
WrapUnsigned(a) == a % 3600

\* std::cos / std::sin of an angle in tenths of a degree (a multiple of 0.5 degree),
\* converted with pi (SFML's transform, and 3.14159265f of main.cpp:246)
Cos(a) == CosTable[(WrapUnsigned(a) \div 5) + 1]
Sin(a) == Cos(a + 2700)

\* cos / sin of part_000:333-336: degrees * (PI / 180) with PI = 3.14
\* (a multiple of 2.5 degrees)
CosPI314(a) == CosTablePI314[(WrapUnsigned(a) \div 25) + 1]
SinPI314(a) == SinTablePI314[(WrapUnsigned(a) \div 25) + 1]

RECURSIVE SqrtSearch(_, _, _)
\* least r in lo..hi with r * r >= s
SqrtSearch(s, lo, hi) ==
    IF lo >= hi THEN lo
    ELSE LET mid == (lo + hi) \div 2
         IN  IF mid * mid >= s THEN SqrtSearch(s, lo, mid)
             ELSE SqrtSearch(s, mid + 1, hi)

\* std::sqrt on the fixed-point grid, rounded up: Sqrt(s) <= t  <=>  s <= t * t
Sqrt(s) == SqrtSearch(s, 0, 40000)

\* part_000:71-75
Distance(a, b) ==
    LET dx == b[1] - a[1]
        dy == b[2] - a[2]
    IN  Sqrt(dx * dx + dy * dy)

-----------------------------------------------------------------------------
(* Rectangles (sf::FloatRect) and transforms (sf::Transformable) *)

Rect(x, y, w, h) == [x |-> x, y |-> y, w |-> w, h |-> h]

\* sf::Rect::contains: min <= p < max on both axes (right and bottom edges excluded)
RectContains(r, p) ==
    LET minX == MinOf(r.x, r.x + r.w)
        maxX == MaxOf(r.x, r.x + r.w)
        minY == MinOf(r.y, r.y + r.h)
        maxY == MaxOf(r.y, r.y + r.h)
    IN  (p[1] >= minX) /\ (p[1] < maxX) /\ (p[2] >= minY) /\ (p[2] < maxY)

\* sf::Transformable::getTransform().transformPoint(pt) for position pos, origin org,
\* scale sn/sd and rotation rot
TransformPoint(pos, org, sn, sd, rot, pt) ==
    LET lx == RDiv((pt[1] - org[1]) * sn, sd)
        ly == RDiv((pt[2] - org[2]) * sn, sd)
        c  == Cos(rot)
        s  == Sin(rot)
    IN  << pos[1] + RDiv(c * lx - s * ly, 1000),
           pos[2] + RDiv(s * lx + c * ly, 1000) >>

\* the four corners of the local rectangle <<0,0>>..size, transformed
TransformedCorners(pos, org, sn, sd, rot, size) ==
    << TransformPoint(pos, org, sn, sd, rot, <<0, 0>>),
       TransformPoint(pos, org, sn, sd, rot, <<size[1], 0>>),
       TransformPoint(pos, org, sn, sd, rot, <<size[1], size[2]>>),
       TransformPoint(pos, org, sn, sd, rot, <<0, size[2]>>) >>

\* sf::Transform::transformRect: the bounding box of the transformed corners
BoundsOf(c) ==
    LET left   == MinOf(MinOf(c[1][1], c[2][1]), MinOf(c[3][1], c[4][1]))
        right  == MaxOf(MaxOf(c[1][1], c[2][1]), MaxOf(c[3][1], c[4][1]))
        top    == MinOf(MinOf(c[1][2], c[2][2]), MinOf(c[3][2], c[4][2]))
        bottom == MaxOf(MaxOf(c[1][2], c[2][2]), MaxOf(c[3][2], c[4][2]))
    IN  Rect(left, top, right - left, bottom - top)

\* carSprite.getGlobalBounds(): the sprite's local bounds are the texture rectangle,
\* its origin their centre (centerSprite), its scale sn/sd
SpriteGlobalBounds(pos, rot, t, sn, sd) ==
    LET size == << 10 * t[1], 10 * t[2] >>
        org  == << 5 * t[1], 5 * t[2] >>
    IN  BoundsOf(TransformedCorners(pos, org, sn, sd, rot, size))

-----------------------------------------------------------------------------
(* Functions of the programs *)

Sensor(pos, rot, color) == [pos |-> pos, rot |-> rot, color |-> color]

\* the car sprite as the layout functions read it
Sprite(pos, rot, t, sn, sd) == [pos |-> pos, rot |-> rot, tex |-> t, sn |-> sn, sd |-> sd]

getGlobalBounds(car) == SpriteGlobalBounds(car.pos, car.rot, car.tex, car.sn, car.sd)

\* parkOccupied with the right edge compared strictly
parkOccupiedStrictRight(carBounds, parkBounds) ==
    /\ carBounds.x >= parkBounds.x
    /\ (carBounds.x + carBounds.w) < (parkBounds.x + parkBounds.w)
    /\ carBounds.y >= parkBounds.y
    /\ (carBounds.y + carBounds.h) <= (parkBounds.y + parkBounds.h)

\* part_000:202-214
parkOccupied(carBounds, parkBounds) ==
    LET isLeftInside   == carBounds.x >= parkBounds.x
        isRightInside  == (carBounds.x + carBounds.w) <= (parkBounds.x + parkBounds.w)
        isTopInside    == carBounds.y >= parkBounds.y
        isBottomInside == (carBounds.y + carBounds.h) <= (parkBounds.y + parkBounds.h)
    IN  isLeftInside /\ isRightInside /\ isTopInside /\ isBottomInside

\* main.cpp:118-128; r is a rectangle shape: pos, org, rot, size (scale 1)
getCorners(r) == TransformedCorners(r.pos, r.org, 1, 1, r.rot, r.size)

\* main.cpp:129-137
isCarParked(parkingBounds, corners) ==
    \A i \in 1..4 : RectContains(parkingBounds, corners[i])

\* the mapper with the first threshold exclusive
IntervalForExclusive(d) ==
    IF d < 800 THEN 100
    ELSE IF d <= 1800 THEN 250
    ELSE IF d <= 3000 THEN 500
    ELSE 0

\* part_000:95-105: the beep interval in ms for a closest distance
IntervalFor(d) ==
    IF d <= 800 THEN 100
    ELSE IF d <= 1800 THEN 250
    ELSE IF d <= 3000 THEN 500
    ELSE 0

\* part_000:247-251 (a circle's position is the corner of its bounding box)
pozicije == << <<8000, 5000>>, <<15500, 8000>>, <<18100, 8000>> >>

RECURSIVE ClosestLoopFirstSensor(_, _, _, _)
\* the loop leaving after the first sensor
ClosestLoopFirstSensor(sens, stupovi, k, closest) ==
    IF k >= Len(stupovi) THEN closest
    ELSE LET dist == Distance(sens[1].pos, stupovi[k + 1])
         IN  ClosestLoopFirstSensor(sens, stupovi, k + 1, IF dist < closest THEN dist ELSE closest)

RECURSIVE ClosestLoop(_, _, _, _)
\* part_000:85-93: the nested loops from pair number k on, k = (sensor - 1) * |stupovi| + (stup - 1)
ClosestLoop(sens, stupovi, k, closest) ==
    IF k >= Len(sens) * Len(stupovi) THEN closest
    ELSE LET sensorPos == sens[(k \div Len(stupovi)) + 1].pos
             stup      == stupovi[(k % Len(stupovi)) + 1]
             dist      == Distance(sensorPos, stup)
         IN  ClosestLoop(sens, stupovi, k + 1, IF dist < closest THEN dist ELSE closest)

\* part_000:83-93
ClosestDist(sens, stupovi) == ClosestLoop(sens, stupovi, 0, FLOAT_MAX)

\* the layout with the sensors turning with the car
updateSensorPositionsTurning(sens, car) ==
    LET carBounds == getGlobalBounds(car)
        left   == carBounds.x - (SENSOR_WIDTH \div 2) - DIAGONAL_OFFSET
        right  == carBounds.x + carBounds.w + (SENSOR_WIDTH \div 2) + DIAGONAL_OFFSET
        bottom == carBounds.y + carBounds.h + (SENSOR_WIDTH \div 2) + DIAGONAL_OFFSET
    IN  << [sens[1] EXCEPT !.rot = WrapUnsigned(450 + car.rot),
                           !.pos = << left, carBounds.y - SENSOR_HEIGHT + (SENSOR_WIDTH \div 2) - DIAGONAL_OFFSET >>],
           [sens[2] EXCEPT !.rot = WrapUnsigned(3150 + car.rot),
                           !.pos = << right, carBounds.y - (SENSOR_WIDTH \div 2) - DIAGONAL_OFFSET >>],
           [sens[3] EXCEPT !.rot = WrapUnsigned(1350 + car.rot), !.pos = << left, bottom >>],
           [sens[4] EXCEPT !.rot = WrapUnsigned(2250 + car.rot), !.pos = << right, bottom >>] >>

\* part_000:155-199
updateSensorPositions(sens, car) ==
    LET carBounds         == getGlobalBounds(car)
        SENSOR_HALF_WIDTH == SENSOR_WIDTH \div 2
        SENSOR_LENGTH     == SENSOR_HEIGHT
    IN  << [sens[1] EXCEPT !.rot = 450,
                           !.pos = << carBounds.x - SENSOR_HALF_WIDTH - DIAGONAL_OFFSET,
                                      carBounds.y - SENSOR_LENGTH + SENSOR_HALF_WIDTH - DIAGONAL_OFFSET >>],
           [sens[2] EXCEPT !.rot = 3150,
                           !.pos = << carBounds.x + carBounds.w + SENSOR_HALF_WIDTH + DIAGONAL_OFFSET,
                                      carBounds.y - SENSOR_HALF_WIDTH - DIAGONAL_OFFSET >>],
           [sens[3] EXCEPT !.rot = 1350,
                           !.pos = << carBounds.x - SENSOR_HALF_WIDTH - DIAGONAL_OFFSET,
                                      carBounds.y + carBounds.h + SENSOR_HALF_WIDTH + DIAGONAL_OFFSET >>],
           [sens[4] EXCEPT !.rot = 2250,
                           !.pos = << carBounds.x + carBounds.w + SENSOR_HALF_WIDTH + DIAGONAL_OFFSET,
                                      carBounds.y + carBounds.h + SENSOR_HALF_WIDTH + DIAGONAL_OFFSET >>] >>

\* main.cpp:487-519
sensorPositionUpdate(sens, car) ==
    LET carBounds == getGlobalBounds(car)
        carCenter == car.pos
    IN  << [sens[1] EXCEPT !.rot = WrapUnsigned(450),
                           !.pos = << carCenter[1] - (SENSOR_WIDTH * 16), carBounds.y - SENSOR_HEIGHT >>],
           [sens[2] EXCEPT !.rot = WrapUnsigned(-450),
                           !.pos = << carCenter[1] + (SENSOR_WIDTH * 16), carBounds.y - SENSOR_HEIGHT >>],
           [sens[3] EXCEPT !.rot = WrapUnsigned(1350),
                           !.pos = << carCenter[1] - (SENSOR_WIDTH * 16), carBounds.y + (SENSOR_HEIGHT * 5) >>],
           [sens[4] EXCEPT !.rot = WrapUnsigned(-1350),
                           !.pos = << carCenter[1] + (SENSOR_WIDTH * 16), carBounds.y + (SENSOR_HEIGHT * 5) >>] >>

\* main.cpp:80-116 and 422-458: positions 400/1500 x 200/800, rotations
\* (45-90)-90, (-45-90)-90, (135-90)-90, (45-90)-90 degrees, wrapped
createSensorIndicators ==
    << Sensor(<<4000, 2000>>,  WrapUnsigned(-1350), "Green"),
       Sensor(<<15000, 2000>>, WrapUnsigned(-2250), "Green"),
       Sensor(<<4000, 8000>>,  WrapUnsigned(-450),  "Green"),
       Sensor(<<15000, 8000>>, WrapUnsigned(-1350), "Green") >>

\* part_000:120-136: a row from (800, 200) with spacing 100, not rotated
createSensorIndicatorsTask2 ==
    [i \in 1..SENSOR_COUNT |-> Sensor(<<8000 + (i - 1) * 1000, 2000>>, 0, "Green")]

\* centerSprite (main.cpp:62-71): the window's centre
windowCentre == << WINDOW_WIDTH \div 2, WINDOW_HEIGHT \div 2 >>

\* main.cpp:23-24 and 209-214: x_positions[i] - carCenter.x, y_positions[i] - carCenter.y
sensorOffsets ==
    << << 4000 - windowCentre[1],  2000 - windowCentre[2] >>,
       << 15000 - windowCentre[1], 2000 - windowCentre[2] >>,
       << 4000 - windowCentre[1],  8000 - windowCentre[2] >>,
       << 15000 - windowCentre[1], 8000 - windowCentre[2] >> >>

\* main.cpp:138-148 and 279-282: the three spots, 360 x 550, yellow
parkingSpotsFresh ==
    << [name |-> "Parking1", bounds |-> Rect(0, 0, 3600, 5500),        color |-> "Yellow"],
       [name |-> "Parking2", bounds |-> Rect(8000, 5300, 3600, 5500),  color |-> "Yellow"],
       [name |-> "Parking3", bounds |-> Rect(15600, 0, 3600, 5500),    color |-> "Yellow"] >>

\* main.cpp:289-294: the rectangle of the car, of the scaled texture's size, centred
\* on the sprite and rotated with it
carBoundsShape(pos, rot, t) ==
    [pos |-> pos, org |-> << RDiv(5 * t[1], 2), RDiv(5 * t[2], 2) >>, rot |-> rot,
     size |-> << 5 * t[1], 5 * t[2] >>]

RECURSIVE FirstParked(_, _, _)
\* main.cpp:298-309: the name of the first spot that contains the corners, "" if none
FirstParked(spotList, corners, i) ==
    IF i > Len(spotList) THEN ""
    ELSE IF isCarParked(spotList[i].bounds, corners) THEN spotList[i].name
    ELSE FirstParked(spotList, corners, i + 1)

\* the colours with every spot turning green when the car is parked in one
colourSpotsAllGreen(spotList, corners) ==
    IF FirstParked(spotList, corners, 1) # ""
    THEN [i \in 1..Len(spotList) |-> [spotList[i] EXCEPT !.color = "Green"]]
    ELSE spotList

\* main.cpp:311-333: the colours after the two loops
colourSpots(spotList, corners) ==
    LET parkedAt == FirstParked(spotList, corners, 1)
        parked   == parkedAt # ""
    IN  [i \in 1..Len(spotList) |->
           IF parked
           THEN IF isCarParked(spotList[i].bounds, corners) /\ spotList[i].name = parkedAt
                THEN [spotList[i] EXCEPT !.color = "Green"]
                ELSE spotList[i]
           ELSE IF ~isCarParked(spotList[i].bounds, corners) /\ spotList[i].name = parkedAt
                THEN [spotList[i] EXCEPT !.color = "Yellow"]
                ELSE spotList[i]]

\* part_000:292-298 and 393: parkIndicator.getGlobalBounds(), 200 x 350 at
\* (1920 - 200 - 10, 10), grown by the outline thickness 2
parkBoundsTask2 == Rect(17100 - 20, 100 - 20, 2000 + 40, 3500 + 40)

\* the timer reset one frame late: a value below the minimum is kept for a frame
decayNextFrame(d) ==
    IF d < DISTANCE_MIN THEN DISTANCE_MAX ELSE d - DISTANCE_DECREASE

\* the timer reset as soon as the minimum is reached
decayInclusive(d) ==
    LET d1 == d - DISTANCE_DECREASE
    IN  IF d1 <= DISTANCE_MIN THEN DISTANCE_MAX ELSE d1

\* main.cpp:569-572 and 231-234
decay(d) ==
    LET d1 == d - DISTANCE_DECREASE
    IN  IF d1 < DISTANCE_MIN THEN DISTANCE_MAX ELSE d1

\* the colour without the warning threshold
sensorColourNoWarning(d) ==
    IF d < DANGER_THRESHOLD THEN "Red" ELSE "Green"

\* main.cpp:597-604
sensorColour(d) ==
    LET c0 == "Green"
        c1 == IF d < WARNING_THRESHOLD THEN "Yellow" ELSE c0
    IN  IF d < DANGER_THRESHOLD THEN "Red" ELSE c1

-----------------------------------------------------------------------------
(* The frame loops *)

Add(p, q) == << p[1] + q[1], p[2] + q[2] >>
Sub(p, q) == << p[1] - q[1], p[2] - q[2] >>

\* main.cpp:249-256: A rotates by -rotationSpeed, then D by +rotationSpeed
rotateParking(h, k) ==
    LET h1 == IF "A" \in k THEN WrapUnsigned(h - rotationSpeed) ELSE h
    IN  IF "D" \in k THEN WrapUnsigned(h1 + rotationSpeed) ELSE h1

\* main.cpp:235-268: speed along the heading read at the start of the frame
movementParking(angleDeg, k) ==
    LET fwd == << RDiv(Cos(angleDeg) * speed, 1000), RDiv(Sin(angleDeg) * speed, 1000) >>
        m1  == IF "W" \in k THEN Add(<<0, 0>>, fwd) ELSE <<0, 0>>
    IN  IF "S" \in k THEN Sub(m1, fwd) ELSE m1

\* main.cpp:271-274: the sensors follow the position the car has before carSprite.move
placeSensorsParking(sens, carPosition) ==
    [i \in 1..Len(sens) |-> [sens[i] EXCEPT !.pos = Add(carPosition, sensorOffsets[i])]]

\* main.cpp:579-591: CAR_SPEED * deltaTime along the window's axes
movementDecay(k, deltaTime) ==
    LET step == RDiv(CAR_SPEED_DECAY * deltaTime, 1000)
        y1 == IF "W" \in k THEN 0 - step ELSE 0
        y2 == IF "S" \in k THEN y1 + step ELSE y1
        x1 == IF "A" \in k THEN 0 - step ELSE 0
        x2 == IF "D" \in k THEN x1 + step ELSE x1
    IN  << x2, y2 >>

\* part_000:329, 354-360: zero, -CAR_ROTATION_SPEED for A, CAR_ROTATION_SPEED for D (D wins)
rotationTask2(k) ==
    LET r1 == IF "A" \in k THEN 0 - CAR_ROTATION_SPEED ELSE 0
    IN  IF "D" \in k THEN CAR_ROTATION_SPEED ELSE r1

\* the displacement along the heading the car has after the turn of the frame
movementTask2Turned(currentRotationDeg, k, deltaTime) ==
    LET turned   == WrapUnsigned(currentRotationDeg + rotationTask2(k))
        distancePerFrame == RDiv(CAR_SPEED * deltaTime, 1000)
        fwd == << RDiv(CosPI314(turned) * distancePerFrame, 1000),
                  RDiv(SinPI314(turned) * distancePerFrame, 1000) >>
        m1  == IF "W" \in k THEN fwd ELSE <<0, 0>>
    IN  IF "S" \in k THEN Sub(m1, fwd) ELSE m1

\* part_000:332-353: CAR_SPEED * deltaTime along the heading read at the start of the frame
movementTask2(currentRotationDeg, k, deltaTime) ==
    LET forwardX == CosPI314(currentRotationDeg)
        forwardY == SinPI314(currentRotationDeg)
        distancePerFrame == RDiv(CAR_SPEED * deltaTime, 1000)
        fwd == << RDiv(forwardX * distancePerFrame, 1000), RDiv(forwardY * distancePerFrame, 1000) >>
        m1  == IF "W" \in k THEN Add(<<0, 0>>, fwd) ELSE <<0, 0>>
    IN  IF "S" \in k THEN Sub(m1, fwd) ELSE m1

\* the beep due only once the interval is exceeded
beepDueStrict(timeSinceLastBeep, beepInterval) ==
    timeSinceLastBeep > beepInterval

\* part_000:107: whether playBeepIfNear plays the beep and restarts beepClock
beepDue(timeSinceLastBeep, beepInterval) ==
    timeSinceLastBeep >= beepInterval

\* part_000:370-382
optionalColours(sens) ==
    [i \in 1..Len(sens) |->
       IF i = 1 THEN [sens[i] EXCEPT !.color = IF sens[i].pos[2] <= 0 THEN "Red" ELSE "Green"]
       ELSE IF i = 3 THEN [sens[i] EXCEPT !.color = IF sens[i].pos[1] <= SENSOR_HEIGHT THEN "Red" ELSE "Green"]
       ELSE sens[i]]

\* main.cpp:606-608
fillAll(sens, colour) == [i \in 1..Len(sens) |-> [sens[i] EXCEPT !.color = colour]]

\* the car sprite as the layout functions get it: scale 1 (main.cpp:541), 0.30 (part_000:266-277)
carDecay(pos, rot, t) == Sprite(pos, rot, t, 1, 1)
carTask2(pos, rot, t) == Sprite(pos, rot, t, 3, 10)

NoCall == [fn |-> "none"]

\* the state at the first frame, for program v
InitOf(v) ==
    /\ variant = v
    /\ tex \in TexSizes
    /\ carPos = IF v = "task2" THEN <<2500, 2500>> ELSE windowCentre
    /\ heading = 0
    /\ sensors = IF v = "task2"
                 THEN updateSensorPositions(createSensorIndicatorsTask2, carTask2(carPos, heading, tex))
                 ELSE createSensorIndicators
    /\ distance = IF v = "task2" THEN 0 ELSE DISTANCE_MAX
    /\ beepElapsed = 0
    /\ beepStatus = "Stopped"
    /\ beepPlayed = FALSE
    /\ closestDist = FLOAT_MAX
    /\ interval = 0
    /\ parkFill = "transGreen"
    /\ parkDrawn = "none"
    /\ spots = << >>
    /\ keys = {}
    /\ dt = 0
    /\ moves = 0
    /\ args = NoCall
    /\ result = << >>

\* main.cpp:181-217
InitParking == InitOf("parking")
\* main.cpp:524-556
InitDecay == InitOf("decay")
\* part_000:222-305
InitTask2 == InitOf("task2")

Init == InitParking \/ InitDecay \/ InitTask2

InArena(p) ==
    /\ Abs(p[1] - windowCentre[1]) <= MaxFar
    /\ Abs(p[2] - windowCentre[2]) <= MaxFar

\* the inputs of a frame: the keys held and the elapsed time
FrameInput(k, d, maxMoves) ==
    /\ (k # {}) => (moves < maxMoves)
    /\ keys' = k
    /\ dt' = d
    /\ moves' = IF k # {} THEN moves + 1 ELSE moves

\* main.cpp:222-347
ParkingFrame ==
    \E k \in SUBSET Keys, d \in DtSet :
      /\ variant = "parking"
      /\ FrameInput(k, d, MaxMoves)
      /\ LET angleDeg == heading
             movement == movementParking(angleDeg, k)
             newRot   == rotateParking(heading, k)
             newPos   == Add(carPos, movement)
             corners  == getCorners(carBoundsShape(newPos, newRot, tex))
         IN  /\ InArena(newPos)
             /\ distance' = decay(distance)
             /\ heading' = newRot
             /\ sensors' = placeSensorsParking(sensors, carPos)
             /\ carPos' = newPos
             /\ spots' = colourSpots(parkingSpotsFresh, corners)
      /\ UNCHANGED << variant, tex, beepElapsed, beepStatus, beepPlayed, closestDist,
                      interval, parkFill, parkDrawn, args, result >>

\* main.cpp:558-629
DecayFrame ==
    \E k \in SUBSET Keys, d \in DtSet, finished \in BOOLEAN :
      /\ variant = "decay"
      /\ FrameInput(k, d, MaxMoves)
      /\ (beepStatus # "Playing") => ~finished
      /\ LET newDistance == decay(distance)
             newPos      == Add(carPos, movementDecay(k, d))
             placed      == sensorPositionUpdate(sensors, carDecay(newPos, heading, tex))
             status      == IF finished THEN "Stopped" ELSE beepStatus
             play        == (newDistance < DANGER_THRESHOLD) /\ (status # "Playing")
         IN  /\ InArena(newPos)
             /\ distance' = newDistance
             /\ carPos' = newPos
             /\ sensors' = fillAll(placed, sensorColour(newDistance))
             /\ beepPlayed' = play
             /\ beepStatus' = IF play THEN "Playing" ELSE status
      /\ UNCHANGED << variant, tex, heading, beepElapsed, closestDist, interval,
                      parkFill, parkDrawn, spots, args, result >>

\* part_000:307-412, the elapsed time of a frame drawn from dts
Task2FrameWith(dts, maxMoves) ==
    \E k \in SUBSET Keys, d \in dts :
      /\ variant = "task2"
      /\ FrameInput(k, d, maxMoves)
      /\ LET movement   == movementTask2(heading, k, d)
             newRot     == WrapUnsigned(heading + rotationTask2(k))
             newPos     == Add(carPos, movement)
             car        == carTask2(newPos, newRot, tex)
             timeSinceLastBeep == MinOf(BeepElapsedCap, beepElapsed + d)
         IN  /\ InArena(newPos)
             /\ heading' = newRot
             /\ carPos' = newPos
             /\ \E placed \in { updateSensorPositions(sensors, car) } :
                  \E closest \in { ClosestDist(placed, pozicije) } :
                    LET newInterval == IntervalFor(closest)
                        play        == beepDue(timeSinceLastBeep, newInterval)
                    IN  /\ sensors' = optionalColours(placed)
                        /\ closestDist' = closest
                        /\ interval' = newInterval
                        /\ beepPlayed' = play
                        /\ beepElapsed' = IF play THEN 0 ELSE timeSinceLastBeep
             /\ parkDrawn' = parkFill
             /\ parkFill' = IF parkOccupied(getGlobalBounds(car), parkBoundsTask2)
                            THEN "transRed" ELSE "transGreen"
      /\ UNCHANGED << variant, tex, distance, beepStatus, spots, args, result >>

\* part_000:307-412
Task2Frame == Task2FrameWith(DtSetTask2, MaxMovesTask2)

Next == ParkingFrame \/ DecayFrame \/ Task2Frame

\* the three programs
Spec == Init /\ [][Next]_vars

\* each program on its own
NextParking == ParkingFrame
SpecParking == InitParking /\ [][NextParking]_vars
NextDecay == DecayFrame
SpecDecay == InitDecay /\ [][NextDecay]_vars
NextTask2 == Task2Frame
SpecTask2 == InitTask2 /\ [][NextTask2]_vars

\* the two programs that drive the car along its heading
InitHeaded == InitParking \/ InitTask2
NextHeaded == ParkingFrame \/ Task2Frame
SpecHeaded == InitHeaded /\ [][NextHeaded]_vars

\* Task 2 with a frame that takes the car next to the first obstacle
Task2BeepFrame == Task2FrameWith(DtSetBeep, MaxMovesBeep)
NextBeep == Task2BeepFrame
SpecBeep == InitTask2 /\ [][NextBeep]_vars

\* the two programs of main.cpp
InitMain == InitParking \/ InitDecay
NextMain == ParkingFrame \/ DecayFrame
SpecMain == InitMain /\ [][NextMain]_vars

-----------------------------------------------------------------------------
(* The containment functions and the mapper applied on their own *)

Boxes == { Rect(x, y, w, h) : x \in 0..MaxCoord, y \in 0..MaxCoord,
                              w \in 0..MaxCoord, h \in 0..MaxCoord }

\* zones of positive size and rectangle shapes centred on their position, on a
\* grid of one pixel, not rotated, rotated by 45 and by 90 degrees
Zones == { Rect(10 * x, 10 * y, 10 * w, 10 * h) : x \in 0..MaxCoord, y \in 0..MaxCoord,
                                                  w \in 1..MaxCoord, h \in 1..MaxCoord }
Shapes == { [pos |-> <<10 * x, 10 * y>>, org |-> <<5 * w, 5 * h>>, rot |-> r,
             size |-> <<10 * w, 10 * h>>] :
             x \in 0..(2 * MaxCoord), y \in 0..MaxCoord, w \in 1..MaxCoord, h \in 1..MaxCoord,
             r \in {0, 450, 900} }

PureCalls ==
    { [fn |-> "parkOccupied", carBounds |-> c, parkBounds |-> z] : c \in Boxes, z \in Boxes }
    \cup { [fn |-> "isCarParked", parkingBounds |-> z, shape |-> r] : z \in Zones, r \in Shapes }
    \cup { [fn |-> "IntervalFor", d |-> d] : d \in (0..MaxDist) \cup {FLOAT_MAX} }

InitPure ==
    /\ variant = "pure"
    /\ tex = <<0, 0>>
    /\ carPos = <<0, 0>>
    /\ heading = 0
    /\ sensors = << >>
    /\ distance = 0
    /\ beepElapsed = 0
    /\ beepStatus = "Stopped"
    /\ beepPlayed = FALSE
    /\ closestDist = FLOAT_MAX
    /\ interval = 0
    /\ parkFill = "transGreen"
    /\ parkDrawn = "none"
    /\ spots = << >>
    /\ keys = {}
    /\ dt = 0
    /\ moves = 0
    /\ args \in PureCalls
    /\ result = << >>

Return(v) ==
    /\ result = << >>
    /\ result' = << v >>
    /\ UNCHANGED << variant, tex, carPos, heading, sensors, distance, beepElapsed,
                    beepStatus, beepPlayed, closestDist, interval, parkFill, parkDrawn,
                    spots, keys, dt, moves, args >>

\* part_000:396
CallParkOccupied ==
    /\ args.fn = "parkOccupied"
    /\ Return(parkOccupied(args.carBounds, args.parkBounds))

\* main.cpp:297-304
CallIsCarParked ==
    /\ args.fn = "isCarParked"
    /\ Return(isCarParked(args.parkingBounds, getCorners(args.shape)))

\* part_000:95-105
CallIntervalFor ==
    /\ args.fn = "IntervalFor"
    /\ Return(IntervalFor(args.d))

NextPure == CallParkOccupied \/ CallIsCarParked \/ CallIntervalFor

SpecPure == InitPure /\ [][NextPure]_vars

-----------------------------------------------------------------------------
(* Claims *)

Left(b)   == b.x
Right(b)  == b.x + b.w
Top(b)    == b.y
Bottom(b) == b.y + b.h

Returned(f) == (args.fn = f) /\ (result # << >>)

\* C1: parkOccupied(car, zone) is true exactly when car.left >= zone.left,
\* car.right <= zone.right, car.top >= zone.top and car.bottom <= zone.bottom, all
\* inclusive: true for car = zone, false as soon as one edge lies outside.
C1_EdgeContainment ==
    Returned("parkOccupied") =>
      LET c == args.carBounds
          z == args.parkBounds
      IN  /\ result[1] <=> ( /\ Left(c) >= Left(z) /\ Right(c) <= Right(z)
                             /\ Top(c) >= Top(z)   /\ Bottom(c) <= Bottom(z) )
          /\ (c = z) => result[1]
          /\ ( \/ Left(c) < Left(z) \/ Right(c) > Right(z)
               \/ Top(c) < Top(z)   \/ Bottom(c) > Bottom(z) ) => ~result[1]

\* the car's right and bottom edges touch the zone's, the car is smaller than the zone
C1_Witness ==
    /\ Returned("parkOccupied")
    /\ result[1]
    /\ Right(args.carBounds) = Right(args.parkBounds)
    /\ Bottom(args.carBounds) = Bottom(args.parkBounds)
    /\ Left(args.carBounds) > Left(args.parkBounds)
    /\ args.carBounds.w > 0

\* C3: the mapper gives 0.1 s for d <= 80, 0.25 s for 80 < d <= 180, 0.5 s for
\* 180 < d <= 300 and the default (0 s) beyond, which differs from the three others.
C3_Mapper ==
    Returned("IntervalFor") =>
      LET d == args.d
      IN  /\ (d <= 800) => (result[1] = 100)
          /\ (800 < d /\ d <= 1800) => (result[1] = 250)
          /\ (1800 < d /\ d <= 3000) => (result[1] = 500)
          /\ (d > 3000) => (result[1] \notin {100, 250, 500})
          /\ (d = 790 \/ d = 800) => (result[1] = 100)
          /\ (d = 810) => (result[1] = 250)
          /\ (d = 3010) => (result[1] = 0)

\* the first threshold itself
C3_Witness == Returned("IntervalFor") /\ args.d = 800 /\ result = << 100 >>

\* C2: isCarParked over the corners of getCorners is false whenever a corner lies
\* strictly outside the zone and true when all 4 corners are inside the zone or on
\* its boundary, on each of the four sides.
C2_CornerContainment ==
    Returned("isCarParked") =>
      LET corners == getCorners(args.shape)
          z       == args.parkingBounds
          StrictlyOutside(p) == \/ p[1] < Left(z) \/ p[1] > Right(z)
                                \/ p[2] < Top(z)  \/ p[2] > Bottom(z)
      IN  /\ (\E i \in 1..4 : StrictlyOutside(corners[i])) => ~result[1]
          /\ (\A i \in 1..4 : ~StrictlyOutside(corners[i])) => result[1]

TimerRuns == variant \in {"parking", "decay"}

\* the colour of the decay variant's thresholds: Green from 60, Yellow from 30, else Red
TierColour(d) == IF d >= 600 THEN "Green" ELSE IF d >= 300 THEN "Yellow" ELSE "Red"

\* C4 as claimed: the frame in which the value becomes < DISTANCE_MIN keeps that
\* value, and the reset to DISTANCE_MAX happens one frame later.
C4_ResetNextFrame ==
    [][ TimerRuns =>
          distance' = IF distance < DISTANCE_MIN THEN DISTANCE_MAX
                      ELSE distance - DISTANCE_DECREASE ]_vars

\* C4 amended: the distance starts at DISTANCE_MAX and decreases by
\* DISTANCE_DECREASE each frame; in the frame in which the decremented value is
\* < DISTANCE_MIN it is reset to DISTANCE_MAX within that same frame, before the
\* feedback mapping, which therefore never sees a value below DISTANCE_MIN.
C4_ResetSameFrame ==
    /\ TimerRuns => (distance = DISTANCE_MAX)
    /\ [][ TimerRuns =>
             /\ (distance - DISTANCE_DECREASE >= DISTANCE_MIN)
                  => (distance' = distance - DISTANCE_DECREASE)
             /\ (distance - DISTANCE_DECREASE < DISTANCE_MIN) => (distance' = DISTANCE_MAX)
             /\ distance' >= DISTANCE_MIN
             /\ (variant = "decay") =>
                  (\A i \in 1..Len(sensors') : sensors'[i].color = TierColour(distance')) ]_vars

\* the parking program right after a reset
C4_Witness ==
    /\ variant = "parking"
    /\ spots # << >>
    /\ distance = DISTANCE_MAX

\* C5: at the end of every frame, whatever the keys, each of the 4 sensors is where
\* the placement rule puts it for the car's position of that same frame.
C5_NoDrift ==
    [][ /\ Len(sensors') = SENSOR_COUNT
        /\ (variant = "parking") =>
             (\A i \in 1..SENSOR_COUNT : sensors'[i].pos = Add(carPos', sensorOffsets[i]))
        /\ (variant = "decay") =>
             (\A i \in 1..SENSOR_COUNT :
                sensors'[i].pos = sensorPositionUpdate(sensors', carDecay(carPos', heading', tex'))[i].pos)
        /\ (variant = "task2") =>
             (\A i \in 1..SENSOR_COUNT :
                sensors'[i].pos = updateSensorPositions(sensors', carTask2(carPos', heading', tex'))[i].pos)
      ]_vars

\* C6: for the car's bounding box (x, y, w, h) the sensors are at
\* (x - 15 - 10, y - 100 + 15 - 10) with 45 degrees, (x + w + 15 + 10, y - 15 - 10) with
\* 315, (x - 15 - 10, y + h + 15 + 10) with 135 and (x + w + 15 + 10, y + h + 15 + 10)
\* with 225, whatever the heading; updating again with the same box changes nothing.
C6_CornerLayout ==
    (variant = "task2") =>
      LET car == carTask2(carPos, heading, tex)
          b   == getGlobalBounds(car)
      IN  /\ Len(sensors) = 4
          /\ sensors[1].pos = << b.x - 150 - 100, b.y - 1000 + 150 - 100 >>
          /\ sensors[1].rot = 450
          /\ sensors[2].pos = << b.x + b.w + 150 + 100, b.y - 150 - 100 >>
          /\ sensors[2].rot = 3150
          /\ sensors[3].pos = << b.x - 150 - 100, b.y + b.h + 150 + 100 >>
          /\ sensors[3].rot = 1350
          /\ sensors[4].pos = << b.x + b.w + 150 + 100, b.y + b.h + 150 + 100 >>
          /\ sensors[4].rot = 2250
          /\ updateSensorPositions(sensors, car) = sensors

\* the car has turned and moved away from its start
C6_Witness ==
    /\ variant = "task2"
    /\ heading \notin {0, 1800}
    /\ carPos # <<2500, 2500>>
    /\ tex = <<400, 200>>
    /\ parkDrawn # "none"

\* C7: the distance playBeepIfNear maps is the minimum of the distance over all pairs
\* of a sensor and an obstacle: one value for the frame, for all sensors.
C7_SharedClosest ==
    (variant = "task2" /\ parkDrawn # "none") =>
      LET all == { Distance(sensors[i].pos, pozicije[j]) :
                     i \in 1..Len(sensors), j \in 1..Len(pozicije) }
      IN  /\ closestDist \in all
          /\ \A x \in all : closestDist <= x
          /\ interval = IntervalFor(closestDist)

\* the closest pair is not one of the first sensor, nor one of the first obstacle
C7_Witness ==
    /\ variant = "task2"
    /\ parkDrawn # "none"
    /\ \A j \in 1..Len(pozicije) : Distance(sensors[1].pos, pozicije[j]) > closestDist
    /\ \A i \in 1..Len(sensors) : Distance(sensors[i].pos, pozicije[1]) > closestDist
    /\ closestDist < FLOAT_MAX

\* C8: a frame whose elapsed time is <= 0 leaves the car's position unchanged.
C8_ZeroDtNoMove ==
    [][ (dt' <= 0) => (carPos' = carPos) ]_vars

TurnRate == IF variant = "task2" THEN CAR_ROTATION_SPEED ELSE rotationSpeed

\* C9: with exactly one turn key the heading changes by the signed rotation rate
\* times the elapsed time of the frame, with none it is unchanged.
C9_HeadingRateTimesDt ==
    [][ (variant \in {"parking", "task2"}) =>
          LET turn  == keys' \cap {"A", "D"}
              delta == RDiv(TurnRate * dt', 1000)
          IN  /\ (turn = {"A"}) => (heading' = WrapUnsigned(heading - delta))
              /\ (turn = {"D"}) => (heading' = WrapUnsigned(heading + delta))
              /\ (turn = {}) => (heading' = heading) ]_vars

\* Safe, Warning, Danger
Rank(colour) == CASE colour = "Green" -> 0 [] colour = "Yellow" -> 1 [] colour = "Red" -> 2

\* C10 as claimed: between two consecutive frames the tier stays or moves to an
\* adjacent tier, toward Danger when the distance decreased, toward Safe when it
\* increased; never directly between Safe and Danger.
C10_AdjacentTiers ==
    [][ (variant = "decay") =>
          LET a == Rank(sensors[1].color)
              b == Rank(sensors'[1].color)
          IN  /\ (distance' < distance) => (b \in {a, a + 1})
              /\ (distance' > distance) => (b \in {a, a - 1})
              /\ ~(a = 0 /\ b = 2) /\ ~(a = 2 /\ b = 0) ]_vars

\* C10 amended: all 4 sensors show the tier of the current distance; while the
\* distance decreases the tier stays or moves to the adjacent tier toward Danger,
\* never directly from Safe to Danger; the distance increases only in the frame that
\* resets it from DISTANCE_MIN to DISTANCE_MAX, where the tier goes from Danger
\* directly to Safe.
C10_TiersWithReset ==
    [][ (variant = "decay") =>
          LET a == Rank(sensors[1].color)
              b == Rank(sensors'[1].color)
          IN  /\ \A i \in 1..Len(sensors') : sensors'[i].color = TierColour(distance')
              /\ (distance' < distance) => (b \in {a, a + 1})
              /\ (distance' > distance) =>
                   (distance = DISTANCE_MIN /\ distance' = DISTANCE_MAX /\ a = 2 /\ b = 0)
              /\ ~(a = 0 /\ b = 2) ]_vars

\* the decay program right after a reset, the beep of the danger phase still playing
C10_Witness ==
    /\ variant = "decay"
    /\ distance = DISTANCE_MAX
    /\ beepStatus = "Playing"
    /\ \A i \in 1..Len(sensors) : sensors[i].color = "Green"

\* whether the car box of the current pose lies in the park indicator (Task 2)
OccupiedNow == parkOccupied(getGlobalBounds(carTask2(carPos, heading, tex)), parkBoundsTask2)

\* C11: in every frame of the Task 2 loop the park indicator is drawn red exactly
\* when parkOccupied holds for the pose of that same frame, and green otherwise.
C11_DrawnColourCurrent ==
    (variant = "task2" /\ parkDrawn # "none") =>
      /\ (parkDrawn = "transRed") <=> OccupiedNow
      /\ (parkDrawn = "transGreen") <=> ~OccupiedNow

\* the corners of the car box of the current pose (parking-spot variant)
CornersNow == getCorners(carBoundsShape(carPos, heading, tex))

\* whether the four corners of the current pose all lie in spot number i
AllCornersIn(i) ==
    \A c \in 1..4 : RectContains(parkingSpotsFresh[i].bounds, CornersNow[c])

C13_BeepRetrigger ==
    [][ (variant = "task2") =>
          LET timeSinceLastBeep == MinOf(BeepElapsedCap, beepElapsed + dt')
          IN  /\ interval' = IntervalFor(closestDist')
              /\ beepPlayed' <=> (timeSinceLastBeep >= interval')
              /\ beepPlayed' => (beepElapsed' = 0)
              /\ ~beepPlayed' => (beepElapsed' = timeSinceLastBeep)
              /\ beepPlayed' => (beepElapsed + dt' >= interval') ]_vars

\* the car rests within 300 pixels of an obstacle and the beep is played in a frame
\* of 16 ms: the clock has run up to the interval over the frames before
C13_Witness ==
    /\ variant = "task2"
    /\ interval = 500
    /\ keys = {}
    /\ dt = 16
    /\ beepPlayed
    /\ beepElapsed = 0

\* C14: the interval selected for the closest distance never decreases as the
\* distance grows, beyond the last threshold included: for d1 <= d2 the interval of
\* d1 is at most the interval of d2.
C14_IntervalMonotone ==
    Returned("IntervalFor") =>
      \A d1 \in (0..MaxDist) \cup {FLOAT_MAX} :
        (d1 <= args.d) => (IntervalFor(d1) <= result[1])

\* the number of frames since the last reset of the timer (0 at the start)
TickInCycle == (DISTANCE_MAX - distance) \div DISTANCE_DECREASE

\* C15: at the end of every frame of the main.cpp loops DISTANCE_MIN <= distance
\* <= DISTANCE_MAX; the timer repeats with a period of 181 frames; in every cycle
\* the decay variant passes through the three tiers (green at the start of the
\* cycle, yellow just below WARNING_THRESHOLD, red from just below DANGER_THRESHOLD
\* down to DISTANCE_MIN).
C15_RangeAndPeriod ==
    /\ TimerRuns => (distance = DISTANCE_MAX)
    /\ [][ TimerRuns =>
             /\ DISTANCE_MIN <= distance' /\ distance' <= DISTANCE_MAX
             /\ distance' = DISTANCE_MAX - DISTANCE_DECREASE * TickInCycle'
             /\ TickInCycle' = (TickInCycle + 1) % 181
             /\ (TickInCycle' = 180) <=> (distance' = DISTANCE_MIN)
             /\ (variant = "decay") =>
                  /\ (TickInCycle' = 0) => (sensors'[1].color = "Green")
                  /\ (distance' = WARNING_THRESHOLD - DISTANCE_DECREASE)
                       => (sensors'[1].color = "Yellow")
                  /\ (distance' = DANGER_THRESHOLD - DISTANCE_DECREASE)
                       => (sensors'[1].color = "Red")
                  /\ (distance' = DISTANCE_MIN) => (sensors'[1].color = "Red") ]_vars

\* the last frame of a cycle of the decay variant: the distance at its minimum, red
C15_Witness ==
    /\ variant = "decay"
    /\ distance = DISTANCE_MIN
    /\ TickInCycle = 180
    /\ \A i \in 1..Len(sensors) : sensors[i].color = "Red"

\* +1 for W alone, -1 for S alone, 0 for both or none
Throttle(k) == (IF "W" \in k THEN 1 ELSE 0) - (IF "S" \in k THEN 1 ELSE 0)

\* the forward step of a frame of d ms at heading h: speed per frame in the
\* parking-spot variant, CAR_SPEED * deltaTime (with PI = 3.14) in Task 2
ForwardStep(v, h, d) ==
    IF v = "parking"
    THEN << RDiv(Cos(h) * speed, 1000), RDiv(Sin(h) * speed, 1000) >>
    ELSE LET along == RDiv(CAR_SPEED * d, 1000)
         IN  << RDiv(CosPI314(h) * along, 1000), RDiv(SinPI314(h) * along, 1000) >>

\* C16: in the parking-spot variant and in Task 2 the displacement of a frame is
\* along the heading the car had at the start of the frame, forward for W, backward
\* for S, zero for both; the turn of the frame only shows in the heading the frame
\* ends with.
C16_MoveAlongOldHeading ==
    [][ (variant \in {"parking", "task2"}) =>
          LET fwd == ForwardStep(variant, heading, dt')
              t   == Throttle(keys')
          IN  /\ carPos' = << carPos[1] + t * fwd[1], carPos[2] + t * fwd[2] >>
              /\ ({"W", "S"} \subseteq keys') => (carPos' = carPos)
              /\ (variant = "parking") => (heading' = rotateParking(heading, keys'))
              /\ (variant = "task2") =>
                   (heading' = WrapUnsigned(heading + rotationTask2(keys'))) ]_vars

\* Task 2 after one frame with W and A held: the car has turned by 2.5 degrees and
\* has moved along the x axis only, the direction of its heading before the turn
C16_Witness ==
    /\ variant = "task2"
    /\ moves = 1
    /\ {"W", "A"} \subseteq keys /\ "S" \notin keys /\ "D" \notin keys
    /\ heading = 3575
    /\ carPos[1] = 18000
    /\ carPos[2] = 2500

=============================================================================
